---- MODULE Spec2Model ----
(***************************************************************************)
(* Huffman coding tree of src/src/btree.rs: frequency counting, tree       *)
(* construction by repeated merge of the two lightest nodes, code table    *)
(* generation, encoding and decoding.                                      *)
(*                                                                         *)
(* A String is a sequence of one-character strings.  An Option is a        *)
(* sequence of length 0 (None) or 1 (Some).  A HashMap is a function whose *)
(* DOMAIN is its key set; its iteration order is a nondeterministic        *)
(* permutation of the keys.                                                *)
(***************************************************************************)
EXTENDS Integers, Sequences, FiniteSets, TLC

\* ---- bounds ----
\* longest input text handed to do_it_all
MaxLen == 5
\* longest input text the tree is built from when decode is called freely
DecMaxLen == 3
\* longest arbitrary bitstring handed to decode
MaxBits == 3
\* longest input text the table is built from when encode is called freely
EncMaxLen == 2
\* longest text handed to encode when it is called freely
MaxMsg == 2
\* cap on the output of a decode loop that never consumes its input
MaxOut == 3

Chars == {"a", "b", "c", "d"}
Bits == {"0", "1"}

Texts(n) == UNION {[1..k -> Chars] : k \in 0..n}
BitStrings(n) == UNION {[1..k -> Bits] : k \in 0..n}

\* ---- Option<T>, String and HashMap helpers ----
None == <<>>
Some(x) == <<x>>
is_some(l) == l # None
is_none(l) == l = None
unwrap(l) == l[1]

\* Vec::last / the vector left by Vec::pop
last(v) == v[Len(v)]
pop(v) == SubSeq(v, 1, Len(v) - 1)

\* HashMap::new and HashMap::insert (an existing key is overwritten)
HashMap_new == [k \in {} |-> 0]
insert(m, k, v) == [x \in (DOMAIN m) \cup {k} |-> IF x = k THEN v ELSE m[x]]

\* every order in which HashMap::iter can yield the keys of m
iter(m) ==
    LET n == Cardinality(DOMAIN m) IN
    {o \in [1..n -> DOMAIN m] : \A i, j \in 1..n : o[i] = o[j] => i = j}

\* ---- Node ----
Node_new(ch, freq) ==
    [ch |-> Some(ch), freq |-> freq, left |-> None, right |-> None]

is_leaf(n) == is_none(n.left) /\ is_none(n.right)

\* ---- find_input_freqs ----
RECURSIVE find_input_freqs(_)
find_input_freqs(input) ==
    IF input = <<>> THEN HashMap_new
    ELSE LET char_map == find_input_freqs(pop(input))
             ch == last(input)
             cnt == (IF ch \in DOMAIN char_map THEN char_map[ch] ELSE 0) + 1
         IN insert(char_map, ch, cnt)

\* ---- populate_tree ----
\* sort_key without the negation: smallest first
sort_key_ascending(m) == m.freq

\* the sort key of lines 82 and 99
sort_key(m) == -m.freq

\* slice::sort_by_key is a stable sort: x, the last element, goes after every
\* element whose key is not greater
insert_sorted(s, x) ==
    LET k == Cardinality({i \in DOMAIN s : sort_key(s[i]) <= sort_key(x)})
    IN SubSeq(s, 1, k) \o <<x>> \o SubSeq(s, k + 1, Len(s))

RECURSIVE sort_by_key(_)
sort_by_key(v) ==
    IF Len(v) = 0 THEN <<>>
    ELSE insert_sorted(sort_by_key(pop(v)), last(v))

\* the leaves pushed by the loop of lines 77-80, in iteration order
leaves(char_map, order) ==
    [i \in 1..Len(order) |-> Node_new(order[i], char_map[order[i]])]

\* parent_node with the children exchanged
parent_node_swapped(left, right) ==
    [ch |-> None, freq |-> left.freq + right.freq,
     left |-> Some(right), right |-> Some(left)]

\* parent_node that keeps only the left weight
parent_node_left_freq(left, right) ==
    [ch |-> None, freq |-> left.freq,
     left |-> Some(left), right |-> Some(right)]

\* the parent node of lines 92-97
parent_node(left, right) ==
    [ch |-> None, freq |-> left.freq + right.freq,
     left |-> Some(left), right |-> Some(right)]

\* one iteration of the loop of lines 84-100
merge_step(v) ==
    LET right == last(v)
        v1 == pop(v)
        left == last(v1)
        v2 == pop(v1)
    IN sort_by_key(Append(v2, parent_node(left, right)))

\* ---- generate_huffman_map ----
\* huffman_map_step that appends nothing on the way right
RECURSIVE huffman_map_step_no_one(_, _, _)
huffman_map_step_no_one(curr, code, huffman_map) ==
    IF is_some(curr)
    THEN IF is_leaf(unwrap(curr))
         THEN insert(huffman_map, unwrap(unwrap(curr).ch), code)
         ELSE huffman_map_step_no_one(unwrap(curr).right, code,
                  huffman_map_step_no_one(unwrap(curr).left, Append(code, "0"),
                                          huffman_map))
    ELSE huffman_map

\* huffman_map_step that appends "0" on both ways
RECURSIVE huffman_map_step_both_zero(_, _, _)
huffman_map_step_both_zero(curr, code, huffman_map) ==
    IF is_some(curr)
    THEN IF is_leaf(unwrap(curr))
         THEN insert(huffman_map, unwrap(unwrap(curr).ch), code)
         ELSE huffman_map_step_both_zero(unwrap(curr).right, Append(code, "0"),
                  huffman_map_step_both_zero(unwrap(curr).left, Append(code, "0"),
                                             huffman_map))
    ELSE huffman_map

RECURSIVE huffman_map_step(_, _, _)
huffman_map_step(curr, code, huffman_map) ==
    IF is_some(curr)
    THEN IF is_leaf(unwrap(curr))
         THEN insert(huffman_map, unwrap(unwrap(curr).ch), code)
         ELSE huffman_map_step(unwrap(curr).right, Append(code, "1"),
                  huffman_map_step(unwrap(curr).left, Append(code, "0"),
                                   huffman_map))
    ELSE huffman_map

generate_huffman_map(head) == huffman_map_step(head, <<>>, HashMap_new)

\* ---- encode ----
\* huffman_map.clone().entry(ch).or_insert(String::new())
entry_or_empty(huffman_map, ch) ==
    IF ch \in DOMAIN huffman_map THEN huffman_map[ch] ELSE <<>>

RECURSIVE encode(_, _)
encode(input, huffman_map) ==
    IF input = <<>> THEN <<>>
    ELSE encode(pop(input), huffman_map) \o entry_or_empty(huffman_map, last(input))

\* ---- decode ----
\* decode_step that goes left on '1'
RECURSIVE decode_step_inverted(_, _, _)
decode_step_inverted(curr, encoded_str, decoded_str) ==
    IF is_some(curr)
    THEN IF is_leaf(unwrap(curr))
         THEN [enc |-> encoded_str,
               dec |-> Append(decoded_str, unwrap(unwrap(curr).ch)),
               panic |-> FALSE]
         ELSE IF encoded_str = <<>>
              THEN [enc |-> encoded_str, dec |-> decoded_str, panic |-> TRUE]
              ELSE IF Head(encoded_str) = "1"
                   THEN decode_step_inverted(unwrap(curr).left, Tail(encoded_str), decoded_str)
                   ELSE decode_step_inverted(unwrap(curr).right, Tail(encoded_str), decoded_str)
    ELSE [enc |-> encoded_str, dec |-> decoded_str, panic |-> FALSE]

\* decode_step that reads the leading bit without removing it
RECURSIVE decode_step_peek(_, _, _)
decode_step_peek(curr, encoded_str, decoded_str) ==
    IF is_some(curr)
    THEN IF is_leaf(unwrap(curr))
         THEN [enc |-> encoded_str,
               dec |-> Append(decoded_str, unwrap(unwrap(curr).ch)),
               panic |-> FALSE]
         ELSE IF encoded_str = <<>>
              THEN [enc |-> encoded_str, dec |-> decoded_str, panic |-> TRUE]
              ELSE IF Head(encoded_str) = "0"
                   THEN decode_step_peek(unwrap(curr).left, encoded_str, decoded_str)
                   ELSE decode_step_peek(unwrap(curr).right, encoded_str, decoded_str)
    ELSE [enc |-> encoded_str, dec |-> decoded_str, panic |-> FALSE]

\* One walk from curr.  String::remove(0) panics on an empty string.
RECURSIVE decode_step(_, _, _)
decode_step(curr, encoded_str, decoded_str) ==
    IF is_some(curr)
    THEN IF is_leaf(unwrap(curr))
         THEN [enc |-> encoded_str,
               dec |-> Append(decoded_str, unwrap(unwrap(curr).ch)),
               panic |-> FALSE]
         ELSE IF encoded_str = <<>>
              THEN [enc |-> encoded_str, dec |-> decoded_str, panic |-> TRUE]
              ELSE IF Head(encoded_str) = "0"
                   THEN decode_step(unwrap(curr).left, Tail(encoded_str), decoded_str)
                   ELSE decode_step(unwrap(curr).right, Tail(encoded_str), decoded_str)
    ELSE [enc |-> encoded_str, dec |-> decoded_str, panic |-> FALSE]

\* ---- state ----
VARIABLES
    pc,               \* position of the caller in the sequence of calls
    input,            \* the text the frequencies are counted from
    char_map,         \* find_input_freqs' result
    char_freqs,       \* populate_tree's working vector
    head,             \* HuffTree.head
    huffman_map,      \* generate_huffman_map's result
    enc_input,        \* encode's argument input
    encoded_str,      \* encode's result
    dec_arg,          \* decode's argument encoded_str
    encoded_str_cpy,  \* decode's local copy, consumed by decode_step
    decoded_str       \* decode's output so far, its result when pc = "done"

vars == <<pc, input, char_map, char_freqs, head, huffman_map, enc_input,
          encoded_str, dec_arg, encoded_str_cpy, decoded_str>>

InitWith(texts) ==
    /\ pc = "start"
    /\ input \in texts
    /\ char_map = HashMap_new
    /\ char_freqs = <<>>
    /\ head = None
    /\ huffman_map = HashMap_new
    /\ enc_input = <<>>
    /\ encoded_str = <<>>
    /\ dec_arg = <<>>
    /\ encoded_str_cpy = <<>>
    /\ decoded_str = <<>>

Init == InitWith(Texts(MaxLen))
InitDecode == InitWith(Texts(DecMaxLen))
InitEncode == InitWith(Texts(EncMaxLen))

FindInputFreqs ==
    /\ pc = "start"
    /\ char_map' = find_input_freqs(input)
    /\ pc' = "freqs"
    /\ UNCHANGED <<input, char_freqs, head, huffman_map, enc_input, encoded_str,
                   dec_arg, encoded_str_cpy, decoded_str>>

\* populate_tree, lines 75-82: push the leaves in iteration order, sort
PopulateLeaves ==
    /\ pc = "freqs"
    /\ \E order \in iter(char_map) :
           char_freqs' = sort_by_key(leaves(char_map, order))
    /\ pc' = "merge"
    /\ UNCHANGED <<input, char_map, head, huffman_map, enc_input, encoded_str,
                   dec_arg, encoded_str_cpy, decoded_str>>

\* populate_tree, lines 84-100: one iteration of the merge loop
MergeStep ==
    /\ pc = "merge"
    /\ Len(char_freqs) > 1
    /\ char_freqs' = merge_step(char_freqs)
    /\ UNCHANGED <<pc, input, char_map, head, huffman_map, enc_input,
                   encoded_str, dec_arg, encoded_str_cpy, decoded_str>>

\* populate_tree, line 102: the loop is over, pop the head
PopulateFinish ==
    /\ pc = "merge"
    /\ ~(Len(char_freqs) > 1)
    /\ head' = IF Len(char_freqs) = 0 THEN None ELSE Some(last(char_freqs))
    /\ char_freqs' = IF Len(char_freqs) = 0 THEN <<>> ELSE pop(char_freqs)
    /\ pc' = "tree"
    /\ UNCHANGED <<input, char_map, huffman_map, enc_input, encoded_str,
                   dec_arg, encoded_str_cpy, decoded_str>>

GenerateHuffmanMap ==
    /\ pc = "tree"
    /\ huffman_map' = generate_huffman_map(head)
    /\ pc' = "map"
    /\ UNCHANGED <<input, char_map, char_freqs, head, enc_input, encoded_str,
                   dec_arg, encoded_str_cpy, decoded_str>>

Encode(text) ==
    /\ pc = "map"
    /\ enc_input' = text
    /\ encoded_str' = encode(text, huffman_map)
    /\ pc' = "encoded"
    /\ UNCHANGED <<input, char_map, char_freqs, head, huffman_map, dec_arg,
                   encoded_str_cpy, decoded_str>>

\* do_it_all, line 160
EncodeInput == Encode(input)

\* a caller of the public encode with a text of its own
EncodeAny == \E text \in Texts(MaxMsg) : Encode(text)

\* decode, lines 133-134
Decode(str) ==
    /\ pc = "encoded"
    /\ dec_arg' = str
    /\ encoded_str_cpy' = str
    /\ decoded_str' = <<>>
    /\ pc' = "decoding"
    /\ UNCHANGED <<input, char_map, char_freqs, head, huffman_map, enc_input,
                   encoded_str>>

\* do_it_all, line 164
DecodeEncoded == Decode(encoded_str)

\* a caller of the public decode with a bitstring of its own: any short
\* bitstring, or the encoding without its trailing bit
DecodeAny ==
    \E str \in BitStrings(MaxBits) \cup
               (IF encoded_str = <<>> THEN {} ELSE {pop(encoded_str)}) :
        Decode(str)

\* decode, lines 135-137: one iteration of the outer loop.  With a leaf as
\* root decode_step appends a symbol and consumes nothing, so the loop never
\* ends and decoded_str grows without bound: MaxOut cuts that run off.  With
\* no root at all the iteration changes nothing.
DecodeLoop ==
    /\ pc = "decoding"
    /\ ~(encoded_str_cpy = <<>>)
    /\ Len(decoded_str) < MaxOut + Len(dec_arg)
    /\ LET r == decode_step(head, encoded_str_cpy, decoded_str) IN
           /\ encoded_str_cpy' = r.enc
           /\ decoded_str' = r.dec
           /\ pc' = IF r.panic THEN "panicked" ELSE "decoding"
    /\ UNCHANGED <<input, char_map, char_freqs, head, huffman_map, enc_input,
                   encoded_str, dec_arg>>

\* decode, line 138
DecodeReturn ==
    /\ pc = "decoding"
    /\ encoded_str_cpy = <<>>
    /\ pc' = "done"
    /\ UNCHANGED <<input, char_map, char_freqs, head, huffman_map, enc_input,
                   encoded_str, dec_arg, encoded_str_cpy, decoded_str>>

\* do_it_all
Next ==
    \/ FindInputFreqs
    \/ PopulateLeaves
    \/ MergeStep
    \/ PopulateFinish
    \/ GenerateHuffmanMap
    \/ EncodeInput
    \/ DecodeEncoded
    \/ DecodeLoop
    \/ DecodeReturn

Spec == Init /\ [][Next]_vars

\* the tree of a text, then decode of any bitstring
NextDecode ==
    \/ FindInputFreqs
    \/ PopulateLeaves
    \/ MergeStep
    \/ PopulateFinish
    \/ GenerateHuffmanMap
    \/ EncodeInput
    \/ DecodeAny
    \/ DecodeLoop
    \/ DecodeReturn

SpecDecode == InitDecode /\ [][NextDecode]_vars

\* the code table of a text, then encode of any text
NextEncode ==
    \/ FindInputFreqs
    \/ PopulateLeaves
    \/ MergeStep
    \/ PopulateFinish
    \/ GenerateHuffmanMap
    \/ EncodeAny

SpecEncode == InitEncode /\ [][NextEncode]_vars

\* the program never stops between two calls; decode's loop keeps running
FairSpecDecode == SpecDecode /\ WF_vars(NextDecode)

\* ---- properties ----
Distinct(text) == {text[i] : i \in DOMAIN text}
Count(text, c) == Cardinality({i \in DOMAIN text : text[i] = c})
ProperPrefix(p, s) == Len(p) < Len(s) /\ SubSeq(s, 1, Len(p)) = p
Range(v) == {v[i] : i \in DOMAIN v}
MultiSymbol == Cardinality(Distinct(input)) >= 2
TreeBuilt == pc \in {"tree", "map", "encoded", "decoding", "done", "panicked"}
TableBuilt == pc \in {"map", "encoded", "decoding", "done", "panicked"}
RootInternal == is_some(head) /\ ~is_leaf(unwrap(head))

RECURSIVE LeafSum(_)
LeafSum(n) ==
    IF is_leaf(n) THEN n.freq
    ELSE LeafSum(unwrap(n.left)) + LeafSum(unwrap(n.right))

\* C1: for a text with at least 2 distinct characters, the sequence of calls
\* of do_it_all never panics and the string decode returns equals the text,
\* for every iteration order of the frequency map.
C1_RoundTrip ==
    MultiSymbol =>
        /\ pc # "panicked"
        /\ pc = "done" => decoded_str = input

C1_Witness ==
    /\ pc = "done"
    /\ Cardinality(Distinct(input)) >= 3
    /\ \E c, d \in Distinct(input) : c # d /\ Count(input, c) = Count(input, d)
    /\ decoded_str = input

\* C2: for a text with at least 2 distinct characters, no code of the table
\* generate_huffman_map returns is a proper prefix of another character's code.
C2_PrefixFree ==
    (TableBuilt /\ MultiSymbol) =>
        \A c, d \in DOMAIN huffman_map :
            c # d => ~ProperPrefix(huffman_map[c], huffman_map[d])

C2_Witness ==
    /\ pc = "map"
    /\ DOMAIN huffman_map = Distinct(input)
    /\ \E c, d \in DOMAIN huffman_map :
           Len(huffman_map[c]) < Len(huffman_map[d])

\* C3: for a text with at least 2 distinct characters, no two distinct
\* characters have the same code in the table generate_huffman_map returns.
C3_Unique ==
    (TableBuilt /\ MultiSymbol) =>
        \A c, d \in DOMAIN huffman_map :
            c # d => huffman_map[c] # huffman_map[d]

C3_Witness ==
    /\ pc = "map"
    /\ DOMAIN huffman_map = Distinct(input)
    /\ Cardinality(DOMAIN huffman_map) >= 3

\* C4: after populate_tree on the frequencies of a non-empty text, the root's
\* freq equals the sum of the leaves' freq, which equals the text's length.
C4_WeightConservation ==
    (TreeBuilt /\ input # <<>>) =>
        /\ is_some(head)
        /\ unwrap(head).freq = LeafSum(unwrap(head))
        /\ LeafSum(unwrap(head)) = Len(input)

C4_Witness ==
    /\ pc = "tree"
    /\ RootInternal
    /\ ~is_leaf(unwrap(unwrap(head).left)) \/ ~is_leaf(unwrap(unwrap(head).right))
    /\ unwrap(head).freq = Len(input)

\* C5: for a text with at least 2 distinct characters, a character that occurs
\* strictly more often than another has a code that is no longer.
C5_CodeLengthOrdering ==
    (TableBuilt /\ MultiSymbol) =>
        \A c, d \in Distinct(input) :
            Count(input, c) > Count(input, d) =>
                Len(huffman_map[c]) <= Len(huffman_map[d])

C5_Witness ==
    /\ pc = "map"
    /\ \E c, d \in Distinct(input) :
           /\ Count(input, c) > Count(input, d)
           /\ Len(huffman_map[c]) < Len(huffman_map[d])
    /\ \E c, d \in Distinct(input) :
           /\ Count(input, c) > Count(input, d)
           /\ Len(huffman_map[c]) = Len(huffman_map[d])

\* C6 (as claimed): decode of a valid encoding of a text with at least 2
\* distinct characters, without its trailing bit, neither returns a decoded
\* string nor panics: the failure is reported to the caller.
C6_TruncatedReported ==
    (/\ pc \in {"decoding", "done", "panicked"}
     /\ MultiSymbol
     /\ encoded_str = encode(input, huffman_map)
     /\ dec_arg = pop(encoded_str)) =>
        pc \notin {"done", "panicked"}

\* C7 (as claimed): for a text of one distinct character, decode of the
\* result of encode returns the text.
C7_SingleSymbolRoundTrip ==
    (pc = "done" /\ Cardinality(Distinct(input)) = 1) => decoded_str = input

\* C8 (as claimed): encode returns no bitstring for a text with a character
\* that has no entry in the code table.
C8_UnknownSymbolFails ==
    pc = "encoded" => \A i \in DOMAIN enc_input : enc_input[i] \in DOMAIN huffman_map

\* one iteration of the merge loop, read off the working collection before
\* and after: two nodes l, r no heavier than any node that stays are replaced
\* by one new node of their summed weight, r (the lighter) as right child
MergeIterationOK ==
    \E n \in Range(char_freqs') \ Range(char_freqs) :
        /\ ~is_leaf(n)
        /\ is_none(n.ch)
        /\ LET l == unwrap(n.left)
               r == unwrap(n.right)
           IN /\ l # r
              /\ {l, r} \subseteq Range(char_freqs)
              /\ Range(char_freqs') = (Range(char_freqs) \ {l, r}) \cup {n}
              /\ Len(char_freqs') = Len(char_freqs) - 1
              /\ n.freq = l.freq + r.freq
              /\ r.freq <= l.freq
              /\ \A m \in Range(char_freqs) \ {l, r} :
                     l.freq <= m.freq /\ r.freq <= m.freq

\* C9 (as claimed): every iteration of the merge loop is as above, and the
\* loop ends with exactly one node, which becomes the root.
C9_MergeLoopOriginal ==
    [][/\ (pc = "merge" /\ pc' = "merge") => MergeIterationOK
       /\ (pc = "merge" /\ pc' = "tree") =>
              /\ Len(char_freqs) = 1
              /\ head' = Some(char_freqs[1])]_vars

\* C9 (amended): every iteration of the merge loop is as above; for a
\* non-empty frequency map the loop ends with exactly one node, which becomes
\* the root; for the empty map it ends with no node and the tree stays empty.
C9_MergeLoop ==
    [][/\ (pc = "merge" /\ pc' = "merge") => MergeIterationOK
       /\ (pc = "merge" /\ pc' = "tree") =>
              IF DOMAIN char_map # {}
              THEN /\ Len(char_freqs) = 1
                   /\ head' = Some(char_freqs[1])
              ELSE /\ Len(char_freqs) = 0
                   /\ head' = None]_vars

C9_Witness ==
    /\ pc = "merge"
    /\ Len(char_freqs) = 2
    /\ \E i \in DOMAIN char_freqs : ~is_leaf(char_freqs[i])
    /\ char_freqs[1].freq = char_freqs[2].freq

\* C10: with an internal node as root, every iteration of decode's outer loop
\* removes at least one character from the remaining bitstring and appends at
\* most one symbol to the output, so what remains plus what was decoded never
\* exceeds the bitstring's length, and decode ends (returns or panics).
C10_DecodeProgress ==
    /\ [][(pc = "decoding" /\ RootInternal /\ encoded_str_cpy # <<>>) =>
              /\ Len(encoded_str_cpy') < Len(encoded_str_cpy)
              /\ Len(decoded_str') <= Len(decoded_str) + 1
              /\ Len(decoded_str') + Len(encoded_str_cpy') <= Len(dec_arg)]_vars
    /\ (pc = "decoding" /\ RootInternal) ~> (pc \in {"done", "panicked"})

C10_Witness ==
    /\ pc = "decoding"
    /\ RootInternal
    /\ Len(dec_arg) >= 3
    /\ Len(decoded_str) >= 2
    /\ encoded_str_cpy # <<>>

====
